---- MODULE Spec2Model ----
(***************************************************************************)
(* The technique-repository-to-command pipeline of the attack simulator:   *)
(* RepoImporter (clone or pull), RepoParser (the walk over <repo>/yml) and  *)
(* CommandUpdater (import_repo, parse_repo, commands.json).                 *)
(***************************************************************************)
EXTENDS Integers, Sequences, FiniteSets, TLC

VARIABLES
    tree,           \* the files os.walk yields under _yml_root, in walk order
    idx,            \* position of the walk in tree (the next file to visit)
    _commands,      \* RepoParser._commands
    origin,         \* for each element of _commands, <<file, entry>> it was appended for
    pc,             \* "idle", "walk", "done" or "aborted" (an exception left __init__)
    _curr_dir,      \* CommandUpdater._curr_dir, a sequence of path components
    disk,           \* directory at each path: [kind, yml]
    remote,         \* the yml tree the remote repository holds now
    commands_json,  \* the file at _commands_json_path: [exists, text]
    call,           \* the last CommandUpdater call and what it did
    gui,            \* the GUI: the table's commands, the form, the last dialog
    sim,            \* the simulator's run over its tests
    wr              \* the writers of commands.json: where each is in its write

vars ==
    <<tree, idx, _commands, origin, pc, _curr_dir, disk, remote, commands_json, call,
      gui, sim, wr>>

----------------------------------------------------------------------------
(* YAML values as yaml.safe_load returns them: a string, None, a list of    *)
(* strings; "absent" marks a key the mapping does not hold.                 *)

Absent == [t |-> "absent", s |-> "", l |-> <<>>]
Null == [t |-> "null", s |-> "", l |-> <<>>]
Str(x) == [t |-> "str", s |-> x, l |-> <<>>]
List(xs) == [t |-> "list", s |-> "", l |-> xs]

Keys == {"Command", "Description", "Severity", "MitreID"}

\* An element of a Commands sequence: a mapping, or anything else (isMap = FALSE).
Mapping(c, d, s, m) ==
    [isMap |-> TRUE,
     map |-> [k \in Keys |-> CASE k = "Command" -> c
                               [] k = "Description" -> d
                               [] k = "Severity" -> s
                               [] k = "MitreID" -> m]]
NotAMapping == [isMap |-> FALSE, map |-> [k \in Keys |-> Absent]]

\* The entries the trees are built from.
EFull == Mapping(Str("whoami"), Str("id check"), Str("Low"), Str("T1059"))
EListTag == Mapping(Str("dir"), Str("list"), Absent, List(<<"T1059", "T1059.001">>))
EMinimal == Mapping(Str("whoami"), Str("id check"), Absent, Absent)
ENoDescription == Mapping(Str("whoami"), Absent, Str("Low"), Str("T1059"))
ENoCommandEmptyTag == Mapping(Absent, Str("list"), Absent, List(<<>>))
EEmptyValues == Mapping(Str(""), Null, Str("Low"), Absent)
EEmptyTag == Mapping(Str("dir"), Str("list"), Str("Low"), List(<<>>))
Entries ==
    {EFull, EListTag, EMinimal, ENoDescription, ENoCommandEmptyTag,
     EEmptyValues, EEmptyTag, NotAMapping}

\* A file under yml: its kind says what open + yaml.safe_load give.
\*   "other"    the name ends in neither .yml nor .yaml
\*   "bad"      open or safe_load raises
\*   "nondict"  the document is not a mapping (a scalar, empty, or a sequence of
\*              technique mappings whose nested commands are cmds)
\*   "nokey"    a mapping without a Commands key
\*   "null"     a mapping whose Commands value is None
\*   "list"     a mapping whose Commands value is the sequence cmds
FileOf(kind, cmds) == [kind |-> kind, cmds |-> cmds]
SpecialKinds == {"other", "bad", "nondict", "nokey", "null"}

MaxTreeSize == 4    \* files plus command entries in a tree

RECURSIVE CmdSeqs(_)
CmdSeqs(n) ==
    IF n = 0 THEN {<<>>}
    ELSE {Append(s, e) : s \in CmdSeqs(n - 1), e \in Entries}

\* The historical shape: a top-level sequence of technique mappings, its nested
\* Commands lists holding n well-formed commands in all.
RECURSIVE Nested(_)
Nested(n) == IF n = 0 THEN <<>> ELSE Append(Nested(n - 1), EFull)

FilesOfSize(n) ==
    IF n = 1 THEN {FileOf(k, <<>>) : k \in SpecialKinds} \cup {FileOf("list", <<>>)}
    ELSE {FileOf("list", c) : c \in CmdSeqs(n - 1)} \cup {FileOf("nondict", Nested(n - 1))}

RECURSIVE TreesOfSize(_)
TreesOfSize(n) ==
    IF n = 0 THEN {<<>>}
    ELSE UNION {{<<f>> \o t : f \in FilesOfSize(k), t \in TreesOfSize(n - k)} : k \in 1..n}

Trees == UNION {TreesOfSize(n) : n \in 0..MaxTreeSize}

----------------------------------------------------------------------------
(* RepoParser                                                               *)

\* command.get(k, default)
Get(command, k, default) ==
    IF command.map[k].t = "absent" THEN default ELSE command.map[k]

\* all(k in command for k in ["Command", "Description"])
HasRequired(command) ==
    \A k \in {"Command", "Description"} : command.map[k].t # "absent"

Raised == [raised |-> TRUE, out |-> <<>>]
Returned(out) == [raised |-> FALSE, out |-> out]

\* MitreIdOf taking the last element of a list instead of the first.
MitreIdOfLast(command) ==
    LET mitre_id == Get(command, "MitreID", Str("N/A")) IN
    IF mitre_id.t # "list" THEN [raised |-> FALSE, val |-> mitre_id]
    ELSE IF mitre_id.l = <<>> THEN [raised |-> TRUE, val |-> Null]
    ELSE [raised |-> FALSE, val |-> Str(mitre_id.l[Len(mitre_id.l)])]

\* mitre_id = command.get("MitreID", "N/A"); if it is a list, mitre_id[0].
MitreIdOf(command) ==
    LET mitre_id == Get(command, "MitreID", Str("N/A")) IN
    IF mitre_id.t # "list" THEN [raised |-> FALSE, val |-> mitre_id]
    ELSE IF mitre_id.l = <<>> THEN [raised |-> TRUE, val |-> Null]     \* IndexError
    ELSE [raised |-> FALSE, val |-> Str(mitre_id.l[1])]

\* ProcessCommand without the test for the required keys: a missing key is
\* read with .get and an empty default.
ProcessCommandUnchecked(command) ==
    IF ~command.isMap THEN Raised
    ELSE LET mitre_id == MitreIdOf(command) IN
         IF mitre_id.raised THEN Raised
         ELSE Returned(<<[Command |-> Get(command, "Command", Str("")),
                          Description |-> Get(command, "Description", Str("")),
                          Severity |-> Get(command, "Severity", Str("Informational")),
                          MitreAttackTag |-> mitre_id.val]>>)

\* The body of `for command in content["Commands"]` for one command:
\* what it appends, or that it raised.
ProcessCommand(command) ==
    IF ~command.isMap THEN Raised                     \* command.get: AttributeError
    ELSE LET mitre_id == MitreIdOf(command) IN
         IF mitre_id.raised THEN Raised
         ELSE LET severity == Get(command, "Severity", Str("Informational")) IN
              IF HasRequired(command)
              THEN Returned(<<[Command |-> command.map["Command"],
                               Description |-> command.map["Description"],
                               Severity |-> severity,
                               MitreAttackTag |-> mitre_id.val]>>)
              ELSE Returned(<<>>)                     \* "[!] Skipping malformed command"

\* CommandLoop with the try around each command: a command that raises is
\* skipped and the loop goes on with the next one.
RECURSIVE CommandLoopSkip(_, _, _)
CommandLoopSkip(cmds, j, acc) ==
    IF j > Len(cmds) THEN Returned(acc)
    ELSE LET r == ProcessCommand(cmds[j]) IN
         CommandLoopSkip(cmds, j + 1,
                         acc \o [n \in 1..Len(r.out) |-> [rec |-> r.out[n], j |-> j]])

\* The for loop over content["Commands"], from entry j on: the records appended
\* (each with the index of its entry) until the list ends or a command raises.
RECURSIVE CommandLoop(_, _, _)
CommandLoop(cmds, j, acc) ==
    IF j > Len(cmds) THEN Returned(acc)
    ELSE LET r == ProcessCommand(cmds[j]) IN
         IF r.raised THEN [raised |-> TRUE, out |-> acc]
         ELSE CommandLoop(cmds, j + 1,
                          acc \o [n \in 1..Len(r.out) |-> [rec |-> r.out[n], j |-> j]])

\* file.endswith(".yml") or file.endswith(".yaml")
IsYamlName(file) == file.kind # "other"

\* TryFile reading the historical shape too: the nested commands of a top-level
\* sequence are processed like a Commands list.
TryFileBothShapes(file) ==
    CASE file.kind = "bad" -> Raised
      [] file.kind = "nokey" -> Returned(<<>>)
      [] file.kind = "null" -> Raised
      [] OTHER -> CommandLoop(file.cmds, 1, <<>>)

\* The try block for one file.
TryFile(file) ==
    CASE file.kind = "bad" -> Raised                       \* open / yaml.safe_load
      [] file.kind \in {"nondict", "nokey"} -> Returned(<<>>)
      [] file.kind = "null" -> Raised                      \* for ... in None: TypeError
      [] OTHER -> CommandLoop(file.cmds, 1, <<>>)

\* OnException ending the walk at the failing file (a break in the handler).
OnExceptionStop == "done"

\* except Exception as e: print(...) -- the walk goes on with the next file.
OnException == "walk"

\* Visit appending only the records _commands does not hold yet.
VisitNoDuplicates(p, file, i) ==
    IF ~IsYamlName(file) THEN [p EXCEPT !.idx = i + 1]
    ELSE LET r == TryFile(file)
             IsNew(x) == \A n \in 1..Len(p.cmds) : p.cmds[n] # x.rec
             out == SelectSeq(r.out, IsNew)
         IN
         [cmds |-> p.cmds \o [n \in 1..Len(out) |-> out[n].rec],
          origin |-> p.origin \o [n \in 1..Len(out) |-> <<i, out[n].j>>],
          idx |-> i + 1,
          pc |-> IF r.raised THEN OnException ELSE "walk"]

\* One iteration of `for file in files`: the parser after visiting tree[i].
Visit(p, file, i) ==
    IF ~IsYamlName(file) THEN [p EXCEPT !.idx = i + 1]
    ELSE LET r == TryFile(file) IN
         [cmds |-> p.cmds \o [n \in 1..Len(r.out) |-> r.out[n].rec],
          origin |-> p.origin \o [n \in 1..Len(r.out) |-> <<i, r.out[n].j>>],
          idx |-> i + 1,
          pc |-> IF r.raised THEN OnException ELSE "walk"]

\* RepoParser.__init__ as a whole: the walk over t from file i on.
RECURSIVE Walk(_, _, _)
Walk(p, t, i) ==
    IF p.pc # "walk" THEN p
    ELSE IF i > Len(t) THEN [p EXCEPT !.pc = "done"]
    ELSE Walk(Visit(p, t[i], i), t, i + 1)

NewParser == [cmds |-> <<>>, origin |-> <<>>, idx |-> 1, pc |-> "walk"]

----------------------------------------------------------------------------
(* Paths: a directory is the sequence of its components below the root.     *)

\* Path(p).parent: the root is its own parent.
Parent(p) == IF p = <<>> THEN <<>> ELSE SubSeq(p, 1, Len(p) - 1)

\* The directory that base + "/" + name names, name given by its components.
RECURSIVE Resolve(_, _)
Resolve(base, name) ==
    IF name = <<>> THEN base
    ELSE Resolve(IF Head(name) = ".." THEN Parent(base) ELSE Append(base, Head(name)),
                 Tail(name))

\* RepoImporter._repo_dir = f"{Path(working_dir).parent.absolute()}/{repo_name}"
RepoDir(working_dir, repo_name) == Resolve(Parent(working_dir), repo_name)

\* os.path.join(self._curr_dir, repo_name), the repo_path parse_repo passes on
RepoPath(curr_dir, repo_name) == Resolve(curr_dir, repo_name)

\* RepoParser._yml_root = os.path.join(repo_path, "yml")
YmlRoot(repo_path) == Append(repo_path, "yml")

CurrDirs == {<<"sim">>, <<"opt", "sim">>}
RepoNames == {<<"LOLBAS">>, <<"..", "LOLBAS">>, <<"sim", "LOLBAS">>}
DiskPaths ==
    {RepoDir(c, n) : c \in CurrDirs, n \in RepoNames}
        \cup {RepoPath(c, n) : c \in CurrDirs, n \in RepoNames}

\* What a path holds: nothing, a directory that is no usable repository (what a
\* failed clone may leave), or a working copy with its yml files.
AbsentDir == [kind |-> "absent", yml |-> <<>>]
PartialDir == [kind |-> "partial", yml |-> <<>>]
WorkingCopy(t) == [kind |-> "repo", yml |-> t]

\* os.path.isdir(path)
IsDir(d, path) == d[path].kind # "absent"

\* The revisions the remote repository can hold.
RevA == <<FileOf("list", <<EFull, EListTag>>)>>
RevB == <<FileOf("bad", <<>>), FileOf("list", <<EMinimal, EFull>>)>>
RemoteTrees == {RevA, RevB}

\* Repo.clone_from(repo_url, dir) on a path that is no directory: the working
\* copy, or an error with nothing or a partial directory left at the path.
CloneOutcomes(rem) ==
    {[dir |-> WorkingCopy(rem), err |-> "none"],
     [dir |-> AbsentDir, err |-> "GitCommandError"],
     [dir |-> PartialDir, err |-> "GitCommandError"]}

\* Repo(dir).remotes.origin.pull()
PullOutcomes(dir, rem) ==
    IF dir.kind = "repo"
    THEN {[dir |-> WorkingCopy(rem), err |-> "none"],
          [dir |-> dir, err |-> "GitCommandError"]}
    ELSE {[dir |-> dir, err |-> "InvalidGitRepositoryError"]}

\* RepoImporter cloning whether or not the directory exists: git refuses to
\* clone into a directory that is there.
RepoImporterAlwaysClone(working_dir, repo_name, d, rem) ==
    LET _repo_dir == RepoDir(working_dir, repo_name) IN
    IF ~IsDir(d, _repo_dir)
    THEN {[disk |-> [d EXCEPT ![_repo_dir] = o.dir], git |-> <<"clone">>,
           gitErr |-> o.err, gitLeft |-> o.dir, raised |-> o.err]
            : o \in CloneOutcomes(rem)}
    ELSE {[disk |-> d, git |-> <<"clone">>, gitErr |-> "GitCommandError",
           gitLeft |-> d[_repo_dir], raised |-> "GitCommandError"]}

\* RepoImporter removing what a failed clone left behind.
RepoImporterCleanup(working_dir, repo_name, d, rem) ==
    LET _repo_dir == RepoDir(working_dir, repo_name) IN
    IF ~IsDir(d, _repo_dir)
    THEN {[disk |-> [d EXCEPT ![_repo_dir] = IF o.err = "none" THEN o.dir ELSE AbsentDir],
           git |-> <<"clone">>,
           gitErr |-> o.err, gitLeft |-> o.dir, raised |-> o.err]
            : o \in CloneOutcomes(rem)}
    ELSE {[disk |-> [d EXCEPT ![_repo_dir] = o.dir], git |-> <<"pull">>,
           gitErr |-> o.err, gitLeft |-> o.dir, raised |-> o.err]
            : o \in PullOutcomes(d[_repo_dir], rem)}

\* RepoImporter.__init__: every way the constructor can end. git lists the git
\* operations it ran, gitErr and gitLeft what the operation raised and left at
\* _repo_dir, raised what leaves the constructor.
RepoImporter(working_dir, repo_name, d, rem) ==
    LET _repo_dir == RepoDir(working_dir, repo_name) IN
    IF ~IsDir(d, _repo_dir)
    THEN {[disk |-> [d EXCEPT ![_repo_dir] = o.dir], git |-> <<"clone">>,
           gitErr |-> o.err, gitLeft |-> o.dir, raised |-> o.err]
            : o \in CloneOutcomes(rem)}
    ELSE {[disk |-> [d EXCEPT ![_repo_dir] = o.dir], git |-> <<"pull">>,
           gitErr |-> o.err, gitLeft |-> o.dir, raised |-> o.err]
            : o \in PullOutcomes(d[_repo_dir], rem)}

----------------------------------------------------------------------------
(* commands.json: the text json.dump writes, as its sequence of tokens.     *)

Tok(t, s) == [t |-> t, s |-> s]

\* A value as JSON: null, a string, or the array of one string (one token).
JsonValue(v) ==
    IF v.t = "null" THEN Tok("lit", "null")
    ELSE IF v.t = "list" THEN Tok("arr", v.l[1])
    ELSE Tok("str", v.s)

JsonObject(r) ==
    <<Tok("p", "{"),
      Tok("str", "Command"), Tok("p", ":"), JsonValue(r.Command), Tok("p", ","),
      Tok("str", "Description"), Tok("p", ":"), JsonValue(r.Description), Tok("p", ","),
      Tok("str", "Severity"), Tok("p", ":"), JsonValue(r.Severity), Tok("p", ","),
      Tok("str", "MitreAttackTag"), Tok("p", ":"), JsonValue(r.MitreAttackTag),
      Tok("p", "}")>>

RECURSIVE JsonItems(_)
JsonItems(cmds) ==
    IF cmds = <<>> THEN <<>>
    ELSE IF Len(cmds) = 1 THEN JsonObject(cmds[1])
    ELSE JsonObject(Head(cmds)) \o <<Tok("p", ",")>> \o JsonItems(Tail(cmds))

\* json.dump(commands, f, indent=4)
JsonDump(cmds) == <<Tok("p", "[")>> \o JsonItems(cmds) \o <<Tok("p", "]")>>

NoFile == [exists |-> FALSE, text |-> <<>>]

\* WriteJson opening the file for append: the new text follows the old.
WriteJsonAppend(old, cmds) == [exists |-> TRUE, text |-> old.text \o JsonDump(cmds)]

\* with open(path, "w") as f: json.dump(commands, f): the file afterwards.
WriteJson(old, cmds) == [exists |-> TRUE, text |-> JsonDump(cmds)]

\* What commands.json may hold before the updater runs: nothing, an empty list,
\* or an entry the GUI saved.
GuiRecord ==
    [Command |-> Str("net user"), Description |-> Str("list accounts"),
     Severity |-> Str("High"), MitreAttackTag |-> Str("")]
PriorJson == {NoFile, WriteJson(NoFile, <<>>), WriteJson(NoFile, <<GuiRecord>>)}

----------------------------------------------------------------------------
(* CommandUpdater                                                           *)

\* The components a specification leaves out stay as they are before they start.
NoEntries == <<>>
EmptyForm == [command |-> <<>>, description |-> <<>>, severity |-> "Informational",
              mitre |-> <<>>]
\* MainWindow before load_existing_commands: the table's list, the form, the last
\* dialog and status text, and what the last operation was and found.
NotLoaded == [ok |-> FALSE, data |-> <<>>]
Status(text, n) == [text |-> text, n |-> n]
GuiIdle ==
    [commands |-> NoEntries, form |-> EmptyForm, dialog |-> "none",
     status |-> Status("Ready", 0), op |-> "none", failed |-> FALSE, alive |-> TRUE,
     before |-> NoEntries, loaded |-> NotLoaded]
NoReport == [written |-> FALSE, total |-> 0, passed |-> 0, failed |-> 0]
SimIdle ==
    [tests |-> <<>>, results |-> <<>>, outcomes |-> <<>>, raised |-> "none",
     report |-> NoReport]
WrIdle ==
    [pc |-> [w \in {"updater", "gui"} |-> "idle"], off |-> [w \in {"updater", "gui"} |-> 0],
     overlap |-> FALSE, order |-> <<>>]

NoCall ==
    [op |-> "none", name |-> <<>>, root |-> <<>>, existed |-> FALSE, git |-> <<>>,
     gitErr |-> "none", gitLeft |-> AbsentDir, raised |-> "none", prior |-> NoFile,
     imported |-> {}]

\* The files os.walk(root) yields: none when root is no directory.
WalkOrder(d, root) ==
    LET repo == Parent(root) IN
    IF repo \in DOMAIN d /\ d[repo].kind = "repo" THEN d[repo].yml ELSE <<>>

\* CommandUpdater.import_repo(repo_url, repo_name)
ImportRepo ==
    \E name \in RepoNames :
      \E r \in RepoImporter(_curr_dir, name, disk, remote) :
        /\ disk' = r.disk
        /\ call' = [op |-> "import", name |-> name, root |-> <<>>,
                    existed |-> IsDir(disk, RepoDir(_curr_dir, name)),
                    git |-> r.git, gitErr |-> r.gitErr, gitLeft |-> r.gitLeft,
                    raised |-> r.raised, prior |-> commands_json,
                    imported |-> IF r.raised = "none"
                                 THEN call.imported \cup {<<name, RepoDir(_curr_dir, name)>>}
                                 ELSE call.imported]
        /\ UNCHANGED <<tree, idx, _commands, origin, pc, _curr_dir, remote, commands_json,
                 gui, sim, wr>>

\* CommandUpdater.parse_repo(repo_name): the parser's walk, then the write of
\* commands.json, which open() may refuse.
ParseRepo ==
    \E name \in RepoNames, canWrite \in BOOLEAN :
      LET root == YmlRoot(RepoPath(_curr_dir, name))
          t == WalkOrder(disk, root)
          p == Walk(NewParser, t, 1)
      IN  /\ tree' = t
          /\ _commands' = p.cmds
          /\ origin' = p.origin
          /\ idx' = p.idx
          /\ pc' = p.pc
          /\ commands_json' = IF p.pc = "done" /\ canWrite
                              THEN WriteJson(commands_json, p.cmds)
                              ELSE commands_json
          /\ call' = [op |-> "parse", name |-> name, root |-> root,
                      existed |-> FALSE, git |-> <<>>, gitErr |-> "none",
                      gitLeft |-> AbsentDir,
                      raised |-> IF p.pc # "done" THEN "Exception"
                                 ELSE IF canWrite THEN "none" ELSE "OSError",
                      prior |-> commands_json, imported |-> call.imported]
          /\ UNCHANGED <<_curr_dir, disk, remote,
                 gui, sim, wr>>

\* The remote repository moves to another revision.
RemotePush ==
    /\ remote' \in RemoteTrees \ {remote}
    /\ UNCHANGED <<tree, idx, _commands, origin, pc, _curr_dir, disk, commands_json, call,
                 gui, sim, wr>>

Init ==
    /\ tree = <<>>
    /\ idx = 1
    /\ _commands = <<>>
    /\ origin = <<>>
    /\ pc = "idle"
    /\ _curr_dir \in CurrDirs
    /\ disk = [p \in DiskPaths |-> AbsentDir]
    /\ remote \in RemoteTrees
    /\ commands_json \in PriorJson
    /\ call = NoCall
    /\ gui = GuiIdle
    /\ sim = SimIdle
    /\ wr = WrIdle

Next == ImportRepo \/ ParseRepo \/ RemotePush

Spec == Init /\ [][Next]_vars

----------------------------------------------------------------------------
(* The parser on its own, over every tree within the bound.                 *)

VisitFile ==
    /\ pc = "walk"
    /\ idx <= Len(tree)
    /\ LET p == Visit([cmds |-> _commands, origin |-> origin, idx |-> idx, pc |-> pc],
                      tree[idx], idx)
       IN  /\ _commands' = p.cmds
           /\ origin' = p.origin
           /\ idx' = p.idx
           /\ pc' = p.pc
    /\ UNCHANGED <<tree, _curr_dir, disk, remote, commands_json, call,
                 gui, sim, wr>>

WalkDone ==
    /\ pc = "walk"
    /\ idx > Len(tree)
    /\ pc' = "done"
    /\ UNCHANGED <<tree, idx, _commands, origin, _curr_dir, disk, remote, commands_json, call,
                 gui, sim, wr>>

InitParser ==
    /\ tree \in Trees
    /\ idx = 1
    /\ _commands = <<>>
    /\ origin = <<>>
    /\ pc = "walk"
    /\ _curr_dir = <<>>
    /\ disk = [p \in DiskPaths |-> AbsentDir]
    /\ remote = RevA
    /\ commands_json = NoFile
    /\ call = NoCall
    /\ gui = GuiIdle
    /\ sim = SimIdle
    /\ wr = WrIdle

NextParser == VisitFile \/ WalkDone

SpecParser == InitParser /\ [][NextParser]_vars

----------------------------------------------------------------------------
(* Simulate.py                                                              *)

MaxTests == 2       \* commands in the list the simulator runs
MaxStderr == 2      \* bytes a process writes to stderr

\* The tuples of the tests list.
TestWhoami ==
    [command |-> "whoami", description |-> "Check user identity", severity |-> "Low",
     mitre_tag |-> "T1033"]
TestInvalid ==
    [command |-> "invalidcommand123", description |-> "Deliberate failure",
     severity |-> "Medium", mitre_tag |-> "T1059"]
TestTuples == {TestWhoami, TestInvalid}

RECURSIVE SeqsUpTo(_, _)
SeqsUpTo(S, n) ==
    IF n = 0 THEN {<<>>}
    ELSE SeqsUpTo(S, n - 1) \cup
         {Append(q, x) : q \in {r \in SeqsUpTo(S, n - 1) : Len(r) = n - 1}, x \in S}

\* Bytes of stderr: "A", the two bytes of U+00E9, and a byte no UTF-8 text holds.
StderrBytes == {65, 195, 169, 255}

\* What subprocess.run meets: the process cannot be started, or it exits with a
\* status after writing stderr.
ProcessOutcomes ==
    {[kind |-> "launch", status |-> 1, stderr |-> <<>>]} \cup
    {[kind |-> "exit", status |-> st, stderr |-> b] :
        st \in {0, 1}, b \in SeqsUpTo(StderrBytes, MaxStderr)}

\* bytes.decode('utf-8'): the code points, or that it raises.
RECURSIVE Utf8Decode(_)
Utf8Decode(b) ==
    IF b = <<>> THEN [ok |-> TRUE, text |-> <<>>]
    ELSE IF b[1] < 128
    THEN LET r == Utf8Decode(Tail(b)) IN [ok |-> r.ok, text |-> <<b[1]>> \o r.text]
    ELSE IF b[1] \in 194..223 /\ Len(b) >= 2 /\ b[2] \in 128..191
    THEN LET r == Utf8Decode(SubSeq(b, 3, Len(b))) IN
         [ok |-> r.ok, text |-> <<(b[1] - 192) * 64 + (b[2] - 128)>> \o r.text]
    ELSE [ok |-> FALSE, text |-> <<>>]

SimulationResult(command, description, severity, mitre_attack_tag, succeeded, error_message) ==
    [command |-> command, description |-> description, severity |-> severity,
     mitre_attack_tag |-> mitre_attack_tag, succeeded |-> succeeded,
     error_message |-> error_message]

\* run_command(command, description, severity, mitre_tag) when the process ends as o:
\* the result it returns, or the exception that leaves it.
run_command(test, o) ==
    IF o.kind = "launch"
    THEN [raised |-> "OSError", result |-> <<>>]           \* not a CalledProcessError
    ELSE IF o.status = 0
    THEN [raised |-> "none",
          result |-> <<SimulationResult(test.command, test.description, test.severity,
                                        test.mitre_tag, TRUE, <<>>)>>]
    ELSE LET msg == Utf8Decode(o.stderr) IN                \* e.stderr.decode('utf-8')
         IF msg.ok
         THEN [raised |-> "none",
               result |-> <<SimulationResult(test.command, test.description, test.severity,
                                             test.mitre_tag, FALSE, msg.text)>>]
         ELSE [raised |-> "UnicodeDecodeError", result |-> <<>>]

\* results = [run_command(*test) for test in tests], one test at a time.
RunNext ==
    /\ sim.raised = "none"
    /\ Len(sim.results) < Len(sim.tests)
    /\ \E o \in ProcessOutcomes :
         LET r == run_command(sim.tests[Len(sim.results) + 1], o) IN
         sim' = [sim EXCEPT !.results = @ \o r.result,
                            !.outcomes = Append(@, o),
                            !.raised = r.raised]
    /\ UNCHANGED <<tree, idx, _commands, origin, pc, _curr_dir, disk, remote,
                   commands_json, call, gui, wr>>

\* generate_html_report(results) and the write of simulation_report.html.
Report ==
    /\ sim.raised = "none"
    /\ Len(sim.results) = Len(sim.tests)
    /\ ~sim.report.written
    /\ LET passed == Cardinality({k \in 1..Len(sim.results) : sim.results[k].succeeded}) IN
       sim' = [sim EXCEPT !.report = [written |-> TRUE, total |-> Len(sim.results),
                                      passed |-> passed,
                                      failed |-> Len(sim.results) - passed]]
    /\ UNCHANGED <<tree, idx, _commands, origin, pc, _curr_dir, disk, remote,
                   commands_json, call, gui, wr>>

InitSim ==
    /\ tree = <<>>
    /\ idx = 1
    /\ _commands = <<>>
    /\ origin = <<>>
    /\ pc = "idle"
    /\ _curr_dir = <<>>
    /\ disk = [p \in DiskPaths |-> AbsentDir]
    /\ remote = RevA
    /\ commands_json = NoFile
    /\ call = NoCall
    /\ gui = GuiIdle
    /\ wr = WrIdle
    /\ sim \in {[SimIdle EXCEPT !.tests = t] : t \in SeqsUpTo(TestTuples, MaxTests)}

NextSim == RunNext \/ Report

SpecSim == InitSim /\ [][NextSim]_vars

----------------------------------------------------------------------------
(* command_add_gui.py: CommandEntry and the JSON files the GUI reads.       *)

JsonKeys == {"Command", "Description", "Severity", "MitreAttackTag"}

\* CommandEntry.__init__
CommandEntry(command, description, severity, mitre_tag) ==
    [command |-> command, description |-> description, severity |-> severity,
     mitre_tag |-> mitre_tag]

\* CommandEntry.to_dict
to_dict(e) ==
    [Command |-> e.command, Description |-> e.description, Severity |-> e.severity,
     MitreAttackTag |-> e.mitre_tag]

\* data.get(key, default) on an object json.load returned.
DataGet(data, key, default) == IF data[key].t = "absent" THEN Str(default) ELSE data[key]

\* from_dict reading the tag under the parser's input key MitreID, which no
\* commands.json record holds.
from_dictMitreID(data) ==
    CommandEntry(DataGet(data, "Command", ""), DataGet(data, "Description", ""),
                 DataGet(data, "Severity", "Informational"), Str(""))

\* CommandEntry.from_dict
from_dict(data) ==
    CommandEntry(DataGet(data, "Command", ""), DataGet(data, "Description", ""),
                 DataGet(data, "Severity", "Informational"),
                 DataGet(data, "MitreAttackTag", ""))

\* json.load: the tokens of a file parsed back into values.  The result is the
\* sequence `for item in data` yields: the objects of a top-level list, or the
\* keys of a top-level object (strings, isObj = FALSE).
EmptyObject == [k \in JsonKeys |-> Absent]
Item(isObj, obj) == [isObj |-> isObj, obj |-> obj]
JsonError == [ok |-> FALSE, items |-> <<>>, next |-> 0]
IsP(t, i, c) == i <= Len(t) /\ t[i] = Tok("p", c)
ValueOf(tok) ==
    IF tok.t = "lit" THEN Null
    ELSE IF tok.t = "arr" THEN List(<<tok.s>>)
    ELSE Str(tok.s)

\* The members of an object from token i on, added to obj; keys lists them.
RECURSIVE JsonPairs(_, _, _, _)
JsonPairs(t, i, obj, keys) ==
    IF i + 3 <= Len(t) /\ t[i].t = "str" /\ IsP(t, i + 1, ":")
       /\ t[i + 2].t \in {"str", "lit", "arr"}
    THEN LET o2 == IF t[i].s \in JsonKeys THEN [obj EXCEPT ![t[i].s] = ValueOf(t[i + 2])]
                   ELSE obj
             k2 == Append(keys, Item(FALSE, EmptyObject))
         IN  IF IsP(t, i + 3, ",") THEN JsonPairs(t, i + 4, o2, k2)
             ELSE IF IsP(t, i + 3, "}")
                  THEN [ok |-> TRUE, items |-> <<Item(TRUE, o2)>> \o k2, next |-> i + 4]
                  ELSE JsonError
    ELSE JsonError

\* The object starting at token i: items[1] is the object, the rest its keys.
JsonObjectAt(t, i) ==
    IF ~IsP(t, i, "{") THEN JsonError
    ELSE IF IsP(t, i + 1, "}")
         THEN [ok |-> TRUE, items |-> <<Item(TRUE, EmptyObject)>>, next |-> i + 2]
         ELSE JsonPairs(t, i + 1, EmptyObject, <<>>)

\* The elements of a list from token i on.
RECURSIVE JsonElements(_, _, _)
JsonElements(t, i, acc) ==
    LET o == JsonObjectAt(t, i) IN
    IF ~o.ok THEN JsonError
    ELSE IF IsP(t, o.next, ",") THEN JsonElements(t, o.next + 1, Append(acc, o.items[1]))
    ELSE IF IsP(t, o.next, "]") /\ o.next = Len(t)
         THEN [ok |-> TRUE, items |-> Append(acc, o.items[1]), next |-> o.next + 1]
         ELSE JsonError

JsonLoad(text) ==
    IF IsP(text, 1, "[")
    THEN IF IsP(text, 2, "]") /\ Len(text) = 2
         THEN [ok |-> TRUE, items |-> <<>>, next |-> 3]
         ELSE JsonElements(text, 2, <<>>)
    ELSE LET o == JsonObjectAt(text, 1) IN
         IF o.ok /\ o.next = Len(text) + 1
         THEN [ok |-> TRUE, items |-> Tail(o.items), next |-> o.next]
         ELSE JsonError

\* The files a load can meet: none, what parse_repo wrote for a repository, what
\* the GUI saved, and hand-made ones (empty, a top-level object, a record
\* without Severity, a record whose Severity is an array).
ParsedTrees == RemoteTrees \cup {<<FileOf("list", <<EEmptyValues, EListTag>>)>>}
WithoutSeverity(r) ==
    LET o == JsonObject(r) IN SubSeq(o, 1, 9) \o SubSeq(o, 14, 17)
TextFile(text) == [exists |-> TRUE, text |-> text]
HandMadeFiles ==
    {TextFile(<<>>),
     TextFile(JsonObject(GuiRecord)),
     TextFile(<<Tok("p", "[")>> \o JsonObject(GuiRecord) \o <<Tok("p", ",")>>
              \o WithoutSeverity(GuiRecord) \o <<Tok("p", "]")>>),
     TextFile(JsonDump(<<[GuiRecord EXCEPT !.Severity = List(<<"High">>)]>>))}
GuiFiles ==
    {NoFile, WriteJson(NoFile, <<GuiRecord>>)}
      \cup {WriteJson(NoFile, Walk(NewParser, t, 1).cmds) : t \in ParsedTrees}
      \cup HandMadeFiles

\* CommandTableWidget.refresh_table: whether it raises.  QTableWidgetItem(text)
\* takes a str: a list raises TypeError, None raises or not with the binding.
Fields == {"command", "description", "severity", "mitre_tag"}
RefreshOutcomes(commands) ==
    LET vals == {commands[k][f] : k \in 1..Len(commands), f \in Fields} IN
    IF \E v \in vals : v.t = "list" THEN {TRUE}
    ELSE IF \E v \in vals : v.t = "null" THEN {TRUE, FALSE}
    ELSE {FALSE}

\* An operation of the window starts: what the list was, nothing shown yet.
Begin(g, op) ==
    [g EXCEPT !.op = op, !.before = g.commands, !.failed = FALSE, !.dialog = "none"]

\* except Exception: the dialog and the status text.
Caught(g, dialog, text) ==
    [g EXCEPT !.failed = TRUE, !.dialog = dialog, !.status = Status(text, 0)]

\* The try block of load_existing_commands and of load_commands on file:
\* json.load, from_dict per item, CommandTableWidget.load_commands (the list is
\* assigned, then the table refreshed), the status text.
LoadFrom(g, file, op, dialog, text) ==
    LET j == IF file.exists THEN JsonLoad(file.text) ELSE JsonError
        g0 == Begin(g, op)
    IN  IF ~j.ok \/ \E k \in 1..Len(j.items) : ~j.items[k].isObj
        THEN {Caught(g0, dialog, text)}
        ELSE LET data == [k \in 1..Len(j.items) |-> j.items[k].obj]
                 commands == [k \in 1..Len(data) |-> from_dict(data[k])]
                 g1 == [g0 EXCEPT !.commands = commands,
                                  !.loaded = [ok |-> TRUE, data |-> data]]
             IN  {IF raises THEN Caught(g1, dialog, text)
                  ELSE [g1 EXCEPT !.status = Status("Loaded", Len(commands))]
                    : raises \in RefreshOutcomes(commands)}

\* with open(path, 'w') as f: json.dump(data, f): open may refuse, and a write
\* may fail after the file was truncated.
IoOutcomes == {"ok", "open", "write"}
GuiWrite(old, data, io) ==
    IF io = "ok" THEN WriteJson(old, data)
    ELSE IF io = "write" THEN TextFile(<<>>)
    ELSE old

\* The try block of save_commands and of export_commands.
SaveTo(g, op, io, okDialog, okText, errDialog, errText) ==
    IF io = "ok"
    THEN [Begin(g, op) EXCEPT !.dialog = okDialog, !.status = Status(okText, Len(g.commands))]
    ELSE Caught(Begin(g, op), errDialog, errText)

Dicts(commands) == [k \in 1..Len(commands) |-> to_dict(commands[k])]

Started == gui.op # "none" /\ gui.alive

\* MainWindow.__init__: load_existing_commands
LoadExisting ==
    /\ gui.op = "none"
    /\ gui' \in IF commands_json.exists
                THEN LoadFrom(gui, commands_json, "start", "Load Error",
                              "Failed to load existing commands")
                ELSE {Begin(gui, "start")}
    /\ UNCHANGED <<tree, idx, _commands, origin, pc, _curr_dir, disk, remote,
                   commands_json, call, sim, wr>>

\* MainWindow.load_commands: the file dialog is cancelled or names a file.
LoadCommands ==
    /\ Started
    /\ \/ gui' = Begin(gui, "cancel")
       \/ \E file \in GuiFiles \cup {commands_json} :
            gui' \in LoadFrom(gui, file, "load", "Load Error", "Failed to load commands")
    /\ UNCHANGED <<tree, idx, _commands, origin, pc, _curr_dir, disk, remote,
                   commands_json, call, sim, wr>>

\* MainWindow.save_commands
SaveCommands ==
    /\ Started
    /\ \E io \in IoOutcomes :
         /\ commands_json' = GuiWrite(commands_json, Dicts(gui.commands), io)
         /\ gui' = SaveTo(gui, "save", io, "Save Successful", "Saved",
                          "Save Error", "Failed to save commands")
    /\ UNCHANGED <<tree, idx, _commands, origin, pc, _curr_dir, disk, remote, call,
                   sim, wr>>

\* MainWindow.export_commands: the file dialog is cancelled or names a file,
\* commands.json itself or another one (whose text the model does not hold).
ExportTargets == {"commands.json", "commands_export.json"}
ExportCommands ==
    /\ Started
    /\ \/ gui' = Begin(gui, "cancel") /\ UNCHANGED commands_json
       \/ \E target \in ExportTargets, io \in IoOutcomes :
            /\ gui' = SaveTo(gui, "export", io, "Export Successful", "Exported",
                             "Export Error", "Failed to export commands")
            /\ commands_json' = IF target = "commands.json"
                                THEN GuiWrite(commands_json, Dicts(gui.commands), io)
                                ELSE commands_json
    /\ UNCHANGED <<tree, idx, _commands, origin, pc, _curr_dir, disk, remote, call,
                   sim, wr>>

\* del self.commands[current_row]
DelRow(commands, row) ==
    [k \in 1..(Len(commands) - 1) |-> IF k < row THEN commands[k] ELSE commands[k + 1]]

\* CommandTableWidget.delete_selected: row 0 is no selection.  An exception of
\* refresh_table leaves the slot uncaught and ends the application.
DeleteSelected ==
    /\ Started
    /\ \E row \in 0..Len(gui.commands), yes \in BOOLEAN :
         IF row >= 1 /\ yes
         THEN LET commands == DelRow(gui.commands, row) IN
              \E raises \in RefreshOutcomes(commands) :
                gui' = [Begin(gui, "delete") EXCEPT !.commands = commands,
                                                    !.loaded = NotLoaded,
                                                    !.alive = ~raises]
         ELSE gui' = Begin(gui, "delete")
    /\ UNCHANGED <<tree, idx, _commands, origin, pc, _curr_dir, disk, remote,
                   commands_json, call, sim, wr>>

\* CommandTableWidget.clear_all
ClearAll ==
    /\ Started
    /\ \E yes \in BOOLEAN :
         IF gui.commands # <<>> /\ yes
         THEN gui' = [Begin(gui, "clear") EXCEPT !.commands = <<>>, !.loaded = NotLoaded]
         ELSE gui' = Begin(gui, "clear")
    /\ UNCHANGED <<tree, idx, _commands, origin, pc, _curr_dir, disk, remote,
                   commands_json, call, sim, wr>>

InitGui ==
    /\ tree = <<>>
    /\ idx = 1
    /\ _commands = <<>>
    /\ origin = <<>>
    /\ pc = "idle"
    /\ _curr_dir = <<>>
    /\ disk = [p \in DiskPaths |-> AbsentDir]
    /\ remote = RevA
    /\ commands_json \in GuiFiles
    /\ call = NoCall
    /\ gui = GuiIdle
    /\ sim = SimIdle
    /\ wr = WrIdle

NextGui ==
    LoadExisting \/ LoadCommands \/ SaveCommands \/ ExportCommands \/ DeleteSelected
      \/ ClearAll

SpecGui == InitGui /\ [][NextGui]_vars

----------------------------------------------------------------------------
(* command_add_gui.py: the input form.                                      *)

MaxCommands == 2    \* entries the table holds when the form adds to it

\* str.strip() on a text (a sequence of characters).
Whitespace == {" ", "\n"}
RECURSIVE LStrip(_)
LStrip(x) == IF x # <<>> /\ Head(x) \in Whitespace THEN LStrip(Tail(x)) ELSE x
RECURSIVE RStrip(_)
RStrip(x) ==
    IF x # <<>> /\ x[Len(x)] \in Whitespace THEN RStrip(SubSeq(x, 1, Len(x) - 1)) ELSE x

\* A strip that leaves the text as typed.
StripNothing(x) == x

Strip(x) == RStrip(LStrip(x))

\* The characters of a text as the str the entry holds.
RECURSIVE Join(_)
Join(x) == IF x = <<>> THEN "" ELSE Head(x) \o Join(Tail(x))

\* What the user types into the fields and selects in the severity combo box.
CommandTexts == {<<>>, <<" ">>, <<" ", "i", "d", " ", "-", "u", " ">>}
DescriptionTexts == {<<>>, <<"\n">>, <<"l", "s", " ">>}
MitreTexts == {<<>>, <<" ", "T", "1">>}
SeverityItems == {"Informational", "Critical"}
FormValues(field) ==
    CASE field = "command" -> CommandTexts
      [] field = "description" -> DescriptionTexts
      [] field = "severity" -> SeverityItems
      [] field = "mitre" -> MitreTexts

\* The user edits one field of the form.
EditForm ==
    /\ Started
    /\ \E field \in DOMAIN EmptyForm :
         \E v \in FormValues(field) : gui' = [Begin(gui, "edit") EXCEPT !.form[field] = v]
    /\ UNCHANGED <<tree, idx, _commands, origin, pc, _curr_dir, disk, remote,
                   commands_json, call, sim, wr>>

\* CommandInputWidget.clear_form, from the Clear Form button.
ClearForm ==
    /\ Started
    /\ gui' = [Begin(gui, "clearform") EXCEPT !.form = EmptyForm]
    /\ UNCHANGED <<tree, idx, _commands, origin, pc, _curr_dir, disk, remote,
                   commands_json, call, sim, wr>>

\* CommandInputWidget.add_command, with MainWindow.add_command and
\* CommandTableWidget.add_command behind the command_added signal.  An exception
\* of refresh_table leaves the slot before the status text and clear_form.
AddCommand ==
    /\ Started
    /\ LET command == Strip(gui.form.command)
           description == Strip(gui.form.description)
           severity == gui.form.severity
           mitre_tag == Strip(gui.form.mitre)
           entry == CommandEntry(Str(Join(command)), Str(Join(description)),
                                 Str(severity), Str(Join(mitre_tag)))
           commands == Append(gui.commands, entry)
       IN  IF command = <<>> \/ description = <<>>
           THEN gui' = [Begin(gui, "add") EXCEPT !.dialog = "Input Error"]
           ELSE /\ Len(gui.commands) < MaxCommands
                /\ \E raises \in RefreshOutcomes(commands) :
                     gui' = IF raises
                            THEN [Begin(gui, "add") EXCEPT !.commands = commands,
                                                           !.loaded = NotLoaded,
                                                           !.alive = FALSE]
                            ELSE [Begin(gui, "add") EXCEPT
                                    !.commands = commands,
                                    !.loaded = NotLoaded,
                                    !.status = Status("Added command: " \o Join(command) \o "...", 0),
                                    !.form = EmptyForm]
    /\ UNCHANGED <<tree, idx, _commands, origin, pc, _curr_dir, disk, remote,
                   commands_json, call, sim, wr>>

InitForm ==
    /\ tree = <<>>
    /\ idx = 1
    /\ _commands = <<>>
    /\ origin = <<>>
    /\ pc = "idle"
    /\ _curr_dir = <<>>
    /\ disk = [p \in DiskPaths |-> AbsentDir]
    /\ remote = RevA
    /\ commands_json = NoFile
    /\ call = NoCall
    /\ gui = GuiIdle
    /\ sim = SimIdle
    /\ wr = WrIdle

NextForm ==
    LoadExisting \/ EditForm \/ ClearForm \/ AddCommand \/ DeleteSelected \/ ClearAll

SpecForm == InitForm /\ [][NextForm]_vars

----------------------------------------------------------------------------
(* commands.json written by parse_repo and by save_commands at once.        *)

BufferSize == 8     \* tokens a file object holds back before it writes them

Writers == {"updater", "gui"}
Other(w) == IF w = "updater" THEN "gui" ELSE "updater"

\* The text json.dump produces for a writer.
Data(w) == IF w = "updater" THEN JsonDump(_commands) ELSE JsonDump(Dicts(gui.commands))

\* open(path, "r+"): the file keeps its text.
OpenedKeepingText(file) == TextFile(file.text)

\* open(path, "w"): the file exists and is empty.
Opened(file) == TextFile(<<>>)

\* write(2) of chunk at offset off: what lies beyond the end of the file up to
\* off reads back as NUL bytes.
Overlay(text, off, chunk) ==
    LET end == off + Len(chunk)
        n == IF Len(text) > end THEN Len(text) ELSE end
    IN  [i \in 1..n |-> IF i > off /\ i <= end THEN chunk[i - off]
                        ELSE IF i <= Len(text) THEN text[i]
                        ELSE Tok("nul", "")]

\* with open(path, "w") as f: the file is truncated, the writer is at offset 0.
OpenForWrite ==
    \E w \in Writers :
      /\ wr.pc[w] = "idle"
      /\ commands_json' = Opened(commands_json)
      /\ wr' = [wr EXCEPT !.pc[w] = "open", !.off[w] = 0,
                          !.overlap = @ \/ wr.pc[Other(w)] = "open"]
      /\ UNCHANGED <<tree, idx, _commands, origin, pc, _curr_dir, disk, remote, call,
                     gui, sim>>

\* json.dump fills the buffer: a full buffer is written at the writer's offset.
Flush ==
    \E w \in Writers :
      /\ wr.pc[w] = "open"
      /\ Len(Data(w)) - wr.off[w] > BufferSize
      /\ commands_json' =
           TextFile(Overlay(commands_json.text, wr.off[w],
                            SubSeq(Data(w), wr.off[w] + 1, wr.off[w] + BufferSize)))
      /\ wr' = [wr EXCEPT !.off[w] = @ + BufferSize]
      /\ UNCHANGED <<tree, idx, _commands, origin, pc, _curr_dir, disk, remote, call,
                     gui, sim>>

\* The with block ends: the rest of the text is written and the file closed.
Close ==
    \E w \in Writers :
      /\ wr.pc[w] = "open"
      /\ Len(Data(w)) - wr.off[w] <= BufferSize
      /\ commands_json' =
           TextFile(Overlay(commands_json.text, wr.off[w],
                            SubSeq(Data(w), wr.off[w] + 1, Len(Data(w)))))
      /\ wr' = [wr EXCEPT !.pc[w] = "closed", !.off[w] = Len(Data(w)),
                          !.order = Append(@, w)]
      /\ UNCHANGED <<tree, idx, _commands, origin, pc, _curr_dir, disk, remote, call,
                     gui, sim>>

\* The lists the two writers hold when they start to write.
RaceTrees == {<<>>, <<FileOf("list", <<EFull>>)>>, RevA}
GuiEntry == CommandEntry(Str("net user"), Str("list accounts"), Str("High"), Str(""))
RaceLists == {<<>>, <<GuiEntry>>, <<GuiEntry, GuiEntry>>}

InitRace ==
    /\ tree \in RaceTrees
    /\ idx = Walk(NewParser, tree, 1).idx
    /\ _commands = Walk(NewParser, tree, 1).cmds
    /\ origin = Walk(NewParser, tree, 1).origin
    /\ pc = Walk(NewParser, tree, 1).pc
    /\ _curr_dir = <<>>
    /\ disk = [p \in DiskPaths |-> AbsentDir]
    /\ remote = RevA
    /\ commands_json \in PriorJson
    /\ call = NoCall
    /\ gui \in {[Begin(GuiIdle, "start") EXCEPT !.commands = c] : c \in RaceLists}
    /\ sim = SimIdle
    /\ wr = WrIdle

NextRace == OpenForWrite \/ Flush \/ Close

SpecRace == InitRace /\ [][NextRace]_vars

----------------------------------------------------------------------------
(* Properties of the parser (SpecParser)                                    *)

\* A value Python takes as non-empty.
NonEmpty(v) == (v.t = "str" /\ v.s # "") \/ (v.t = "list" /\ v.l # <<>>)

\* The entry _commands[k] was appended for.
Src(k) == tree[origin[k][1]].cmds[origin[k][2]]

\* The indices of the records appended for entry j of file i.
RecordsFor(i, j) == {k \in 1..Len(origin) : origin[k] = <<i, j>>}

\* The entry lacks one of the two required keys.
LacksKey(e) == e.map["Command"].t = "absent" \/ e.map["Description"].t = "absent"

\* Processing the entry raises.
EntryRaises(e) == ~e.isMap \/ e.map["MitreID"] = List(<<>>)

\* The loop over file i gets as far as entry j.
Reached(i, j) ==
    /\ tree[i].kind = "list"
    /\ j \in 1..Len(tree[i].cmds)
    /\ \A h \in 1..(j - 1) : ~EntryRaises(tree[i].cmds[h])

\* The entries a record is appended for, over the whole tree.
Retained ==
    {ij \in UNION {{<<i, j>> : j \in 1..Len(tree[i].cmds)} : i \in 1..Len(tree)} :
        /\ Reached(ij[1], ij[2])
        /\ ~EntryRaises(tree[ij[1]].cmds[ij[2]])
        /\ ~LacksKey(tree[ij[1]].cmds[ij[2]])}

\* <<i, j>> comes before <<k, l>> in the walk.
Before(a, b) == a[1] < b[1] \/ (a[1] = b[1] /\ a[2] < b[2])

\* C1: once the walk is done, every command mapping with a non-empty Command and
\* Description, in any file that is a mapping with a Commands sequence, has exactly
\* one record, with its Command and Description and with its Severity or
\* Informational, whatever the other entries of the list are.
C1_Complete ==
    pc = "done" =>
      \A i \in 1..Len(tree) : tree[i].kind = "list" =>
        \A j \in 1..Len(tree[i].cmds) :
          LET e == tree[i].cmds[j] IN
          (e.isMap /\ NonEmpty(e.map["Command"]) /\ NonEmpty(e.map["Description"])) =>
            /\ Cardinality(RecordsFor(i, j)) = 1
            /\ \A k \in RecordsFor(i, j) :
                 /\ _commands[k].Command = e.map["Command"]
                 /\ _commands[k].Description = e.map["Description"]
                 /\ _commands[k].Severity =
                      (IF e.map["Severity"].t = "absent" THEN Str("Informational")
                       ELSE e.map["Severity"])

\* C2: every record of _commands has a Command and a Description that are present
\* and non-empty in the mapping it was appended for.
C2_RetainedNonEmpty ==
    \A k \in 1..Len(_commands) :
      /\ NonEmpty(Src(k).map["Command"]) /\ _commands[k].Command = Src(k).map["Command"]
      /\ NonEmpty(Src(k).map["Description"])
      /\ _commands[k].Description = Src(k).map["Description"]

\* C4: no record is appended for a command mapping that lacks the Command key or
\* the Description key, whatever its other fields, and no exception leaves the
\* constructor.
C4_MissingKeyDropped ==
    /\ pc # "aborted"
    /\ \A i \in 1..Len(tree) : \A j \in 1..Len(tree[i].cmds) :
         (tree[i].cmds[j].isMap /\ LacksKey(tree[i].cmds[j])) => RecordsFor(i, j) = {}

\* C4 witness: the walk is done over a tree that holds a mapping without Command
\* whose MitreID is an empty list, and one without Description.
C4_Witness ==
    /\ pc = "done"
    /\ \E i \in 1..Len(tree) : \E j \in 1..Len(tree[i].cmds) :
         tree[i].cmds[j] = ENoCommandEmptyTag
    /\ \E i \in 1..Len(tree) : \E j \in 1..Len(tree[i].cmds) :
         tree[i].cmds[j] = ENoDescription

\* The try block of file i raises.
FileFails(i) ==
    \/ tree[i].kind \in {"bad", "null"}
    \/ \E j \in 1..Len(tree[i].cmds) : EntryRaises(tree[i].cmds[j])

\* C5: a failing file never aborts the walk: no exception leaves the constructor,
\* the walk ends only after the last file, and every file whose processing does
\* not fail has a record for each of its entries holding both keys, whatever
\* failing files come before or after it.
C5_WalkSurvives ==
    /\ pc # "aborted"
    /\ pc = "done" =>
         /\ idx = Len(tree) + 1
         /\ \A i \in 1..Len(tree) : (tree[i].kind = "list" /\ ~FileFails(i)) =>
              \A j \in 1..Len(tree[i].cmds) :
                ~LacksKey(tree[i].cmds[j]) => Cardinality(RecordsFor(i, j)) = 1

\* C5 witness: the walk is done, a file that fails to read or parse was visited
\* first, and a record of a later file is in the result.
C5_Witness ==
    /\ pc = "done"
    /\ \E i \in 1..Len(tree) : \E k \in 1..Len(origin) :
         tree[i].kind = "bad" /\ origin[k][1] > i

\* C6: the MitreAttackTag of a record is the first element of the source MitreID
\* when that is a list, the source value when it is a scalar, N/A when the mapping
\* has no MitreID; and an entry the loop reaches that has both keys and no MitreID
\* has its record.
C6_MitreTag ==
    /\ \A k \in 1..Len(_commands) :
         LET m == Src(k).map["MitreID"] IN
         _commands[k].MitreAttackTag =
            (CASE m.t = "list" -> Str(m.l[1])
               [] m.t = "absent" -> Str("N/A")
               [] OTHER -> m)
    /\ pc = "done" =>
         \A i \in 1..Len(tree) : \A j \in 1..Len(tree[i].cmds) :
           (Reached(i, j) /\ tree[i].cmds[j].isMap /\ ~LacksKey(tree[i].cmds[j])
              /\ tree[i].cmds[j].map["MitreID"].t = "absent")
             => RecordsFor(i, j) # {}

\* C6 witness: the result holds a record from a list MitreID, one from a scalar
\* and one from a mapping without MitreID.
C6_Witness ==
    /\ pc = "done"
    /\ \E k \in 1..Len(_commands) : Src(k).map["MitreID"].t = "list"
    /\ \E k \in 1..Len(_commands) : Src(k).map["MitreID"].t = "str"
    /\ \E k \in 1..Len(_commands) :
         Src(k).map["MitreID"].t = "absent" /\ _commands[k].MitreAttackTag = Str("N/A")

\* C7: the records are in walk order (file order, then source-list order), each
\* carries the Command and Description of its entry, and once the walk is done
\* there is exactly one record per retained entry, equal records included.
C7_OrderAndDuplicates ==
    /\ Len(origin) = Len(_commands)
    /\ \A k \in 1..Len(origin) : \A l \in 1..Len(origin) :
         k < l => Before(origin[k], origin[l])
    /\ \A k \in 1..Len(_commands) :
         /\ _commands[k].Command = Src(k).map["Command"]
         /\ _commands[k].Description = Src(k).map["Description"]
    /\ pc = "done" => {origin[k] : k \in 1..Len(origin)} = Retained

\* C7 witness: the walk is done and the result holds two equal records that come
\* from different files.
C7_Witness ==
    /\ pc = "done"
    /\ \E k \in 1..Len(_commands) : \E l \in 1..Len(_commands) :
         k < l /\ _commands[k] = _commands[l] /\ origin[k][1] < origin[l][1]

\* C12: a document that is not a mapping with a Commands key (a scalar, an empty
\* document, the historical sequence of technique mappings, a mapping without the
\* key) contributes no record and does not stop the walk: no exception leaves the
\* constructor and the walk ends only after the last file.
C12_CanonicalShapeOnly ==
    /\ pc # "aborted"
    /\ pc = "done" => idx = Len(tree) + 1
    /\ \A k \in 1..Len(origin) : tree[origin[k][1]].kind \notin {"nondict", "nokey"}

\* C12 witness: the walk is done, it visited a top-level sequence with nested
\* commands, and a record of a later file is in the result.
C12_Witness ==
    /\ pc = "done"
    /\ \E i \in 1..Len(tree) : \E k \in 1..Len(origin) :
         tree[i].kind = "nondict" /\ tree[i].cmds # <<>> /\ origin[k][1] > i

\* The first entry of file i that raises (0 when none does).
FirstRaising(i) ==
    IF \E j \in 1..Len(tree[i].cmds) : EntryRaises(tree[i].cmds[j])
    THEN CHOOSE j \in 1..Len(tree[i].cmds) :
           /\ EntryRaises(tree[i].cmds[j])
           /\ \A h \in 1..(j - 1) : ~EntryRaises(tree[i].cmds[h])
    ELSE 0

\* C15: when entry k of a Commands list raises, the records of entries 1..k-1 of
\* the file stay in the result, no entry from k on has a record, and the walk goes
\* on with the next file.
C15_PartialFile ==
    /\ pc # "aborted"
    /\ \A i \in 1..Len(tree) :
         (i < idx /\ tree[i].kind = "list" /\ FirstRaising(i) > 0) =>
           /\ \A j \in 1..Len(tree[i].cmds) :
                Cardinality(RecordsFor(i, j)) =
                   (IF j < FirstRaising(i) /\ ~LacksKey(tree[i].cmds[j]) THEN 1 ELSE 0)
           /\ pc = "walk" \/ (pc = "done" /\ idx = Len(tree) + 1)

\* C15 witness: the walk is done over a file whose second or later entry raised
\* after a record was appended, with a well-formed entry behind it.
C15_Witness ==
    /\ pc = "done"
    /\ \E i \in 1..Len(tree) :
         /\ tree[i].kind = "list" /\ FirstRaising(i) > 1
         /\ RecordsFor(i, 1) # {}
         /\ \E j \in (FirstRaising(i) + 1)..Len(tree[i].cmds) :
              ~EntryRaises(tree[i].cmds[j]) /\ ~LacksKey(tree[i].cmds[j])

----------------------------------------------------------------------------
(* Properties of the updater (Spec)                                         *)

\* C3: after a successful import_repo(url, name), parse_repo(name) walks the yml
\* directory of the directory import_repo cloned or pulled.
C3_SameDirectory ==
    call.op = "parse" =>
      \A imp \in call.imported :
        imp[1] = call.name => call.root = Append(imp[2], "yml")

\* C8: after a successful parse_repo, commands.json is the dump of what the walk
\* over the yml files gives, whatever the file held before.
C8_FunctionOfInput ==
    (call.op = "parse" /\ call.raised = "none") =>
      /\ commands_json.exists
      /\ commands_json.text =
           JsonDump(Walk(NewParser,
                         WalkOrder(disk, YmlRoot(RepoPath(_curr_dir, call.name))), 1).cmds)

\* C8 witness: a successful parse_repo that wrote records over a file that held
\* other, non-empty content (a second pass over new input, or a GUI save).
C8_Witness ==
    /\ call.op = "parse" /\ call.raised = "none"
    /\ Len(_commands) > 0
    /\ Len(call.prior.text) > 2
    /\ call.prior # commands_json

\* C9: import_repo clones exactly when no directory is at _repo_dir and pulls
\* exactly when one is, one of the two and never both; when it returns without an
\* exception a working copy is at _repo_dir.
C9_BranchAndPostcondition ==
    call.op = "import" =>
      /\ (call.git = <<"clone">>) <=> ~call.existed
      /\ (call.git = <<"pull">>) <=> call.existed
      /\ call.raised = "none" => disk[RepoDir(_curr_dir, call.name)].kind = "repo"

\* C9 witness: an import_repo that found the directory, pulled and returned.
C9_Witness ==
    /\ call.op = "import" /\ call.existed /\ call.git = <<"pull">>
    /\ call.raised = "none"
    /\ disk[RepoDir(_curr_dir, call.name)].kind = "repo"

\* What the last import_repo left: one git operation, its error as the error of
\* the call, and after a failure the directory as git left it.
ImportOutcome ==
    call.op = "import" =>
      /\ Len(call.git) = 1
      /\ call.raised = call.gitErr
      /\ call.raised # "none" => disk[RepoDir(_curr_dir, call.name)] = call.gitLeft

\* An import_repo of the name whose clone just failed and left a directory pulls.
PullAfterFailedClone ==
    (/\ call.op = "import" /\ call.git = <<"clone">> /\ call.raised # "none"
     /\ disk[RepoDir(_curr_dir, call.name)].kind # "absent"
     /\ call'.op = "import" /\ call'.name = call.name /\ call' # call)
      => call'.git = <<"pull">>

\* C10: the error of the clone or pull leaves import_repo unchanged, each call
\* makes one attempt, a failure removes nothing, and the call after a failed
\* clone that left a directory pulls instead of cloning again.
C10_FailurePolicy == []ImportOutcome /\ [][PullAfterFailedClone]_vars

\* C10 witness: a clone failed and left a directory, and the next import_repo of
\* the name pulled, failed in turn, and the directory is still there.
C10_Witness ==
    /\ call.op = "import" /\ call.git = <<"pull">> /\ call.raised # "none"
    /\ disk[RepoDir(_curr_dir, call.name)].kind = "partial"

----------------------------------------------------------------------------
(* Properties of the simulator (SpecSim)                                    *)

\* C13: run_command never raises: every command run has its one result, in input
\* order, with the command's four fields, succeeded exactly when the process
\* exited with status 0, and otherwise the process's error text as error_message.
C13_NeverRaises ==
    /\ sim.raised = "none"
    /\ Len(sim.results) = Len(sim.outcomes)
    /\ \A k \in 1..Len(sim.results) :
         /\ sim.results[k].command = sim.tests[k].command
         /\ sim.results[k].description = sim.tests[k].description
         /\ sim.results[k].severity = sim.tests[k].severity
         /\ sim.results[k].mitre_attack_tag = sim.tests[k].mitre_tag
         /\ sim.results[k].succeeded <=> sim.outcomes[k].status = 0
         /\ ~sim.results[k].succeeded =>
              sim.results[k].error_message = Utf8Decode(sim.outcomes[k].stderr).text

----------------------------------------------------------------------------
(* Properties of the GUI's file operations (SpecGui)                        *)

ErrorDialogs == {"Load Error", "Save Error", "Export Error"}
ErrorTexts ==
    {"Failed to load commands", "Failed to save commands", "Failed to export commands"}

\* C14: a failure in save_commands, export_commands or load_commands is caught
\* and reported (dialog plus status text), the application keeps running, and
\* the in-memory command list is exactly what it was before the operation.
C14_WriteFailures ==
    (gui.failed /\ gui.op \in {"load", "save", "export"}) =>
        /\ gui.alive
        /\ gui.dialog \in ErrorDialogs
        /\ gui.status.text \in ErrorTexts
        /\ gui.commands = gui.before

FourKeys(obj) == \A k \in JsonKeys : obj[k].t # "absent"

\* C17: a list of records that each carry the four keys, loaded in the GUI and
\* saved back, is written as the same records with the same values in the same
\* order; a record without Severity is loaded as Informational.
C17_RoundTrip ==
    /\ gui.loaded.ok =>
         /\ Len(gui.commands) = Len(gui.loaded.data)
         /\ \A k \in 1..Len(gui.loaded.data) :
              gui.loaded.data[k]["Severity"].t = "absent"
                => gui.commands[k].severity = Str("Informational")
    /\ (/\ gui.op = "save" /\ ~gui.failed /\ gui.loaded.ok
        /\ \A k \in 1..Len(gui.loaded.data) : FourKeys(gui.loaded.data[k]))
         => LET j == JsonLoad(commands_json.text) IN
            /\ j.ok
            /\ Len(j.items) = Len(gui.loaded.data)
            /\ \A k \in 1..Len(j.items) : j.items[k] = Item(TRUE, gui.loaded.data[k])

\* A two-record file parse_repo wrote (one Description null) was loaded and saved.
C17_Witness ==
    /\ gui.op = "save" /\ ~gui.failed /\ gui.loaded.ok
    /\ Len(gui.loaded.data) = 2
    /\ \A k \in 1..2 : FourKeys(gui.loaded.data[k])
    /\ gui.loaded.data[1]["Description"] = Null
    /\ gui.loaded.data[2]["MitreAttackTag"] = Str("T1059")
    /\ commands_json.text = JsonDump(Dicts(gui.commands))

----------------------------------------------------------------------------
(* Properties of the input form (SpecForm)                                  *)

\* The text between the first and the last character that is not whitespace.
Trimmed(x) ==
    LET I == {i \in 1..Len(x) : x[i] \notin Whitespace} IN
    IF I = {} THEN <<>>
    ELSE SubSeq(x, CHOOSE i \in I : \A j \in I : i <= j, CHOOSE i \in I : \A j \in I : j <= i)

\* Every held entry has a non-empty command and a non-empty description.
EntriesFilled ==
    \A k \in 1..Len(gui.commands) :
        /\ gui.commands[k].command.t = "str" /\ gui.commands[k].command.s # ""
        /\ gui.commands[k].description.t = "str" /\ gui.commands[k].description.s # ""

\* A click on Add Command: with both trimmed texts non-empty exactly one entry
\* (trimmed values, selected severity) is appended and the form reset, otherwise
\* the list and the form stay as they are.
AddStep ==
    gui'.op = "add" =>
        IF Trimmed(gui.form.command) # <<>> /\ Trimmed(gui.form.description) # <<>>
        THEN /\ gui'.commands =
                  Append(gui.commands,
                         CommandEntry(Str(Join(Trimmed(gui.form.command))),
                                      Str(Join(Trimmed(gui.form.description))),
                                      Str(gui.form.severity),
                                      Str(Join(Trimmed(gui.form.mitre)))))
             /\ gui'.form = EmptyForm
        ELSE /\ gui'.commands = gui.commands
             /\ gui'.form = gui.form
             /\ gui'.dialog = "Input Error"

\* C16: add_command appends an entry only when the trimmed command and the
\* trimmed description are both non-empty (rejection leaves list and form,
\* acceptance appends one trimmed entry at the end and resets the form), and so
\* from an empty list every held entry has a non-empty command and description.
C16_FormValidation == []EntriesFilled /\ [][AddStep]_vars

\* A padded command was added after another entry, and the form is reset.
C16_Witness ==
    /\ gui.op = "add"
    /\ Len(gui.commands) = 2
    /\ gui.before = <<gui.commands[1]>>
    /\ gui.commands[2].command = Str("id -u")
    /\ gui.commands[2].description = Str("ls")
    /\ gui.commands[2].severity = Str("Critical")
    /\ gui.commands[2].mitre_tag = Str("T1")
    /\ gui.form = EmptyForm

----------------------------------------------------------------------------
(* Properties of the two writers of commands.json (SpecRace)                *)

BothClosed == \A w \in Writers : wr.pc[w] = "closed"

\* C11 as stated: once both writers have finished, the file holds exactly the
\* complete list of one of the two writers, never a mixture of both.
C11_OneWritersList ==
    BothClosed => \E w \in Writers : commands_json.text = Data(w)

\* C11: when the two writes do not overlap (one writer closes the file before
\* the other opens it), the file afterwards holds exactly the complete list of
\* the writer that wrote last, with nothing of the other's.
C11_LastWriterWins ==
    (BothClosed /\ ~wr.overlap) => commands_json.text = Data(wr.order[2])

\* The longer list was written first and the shorter one, written after it, is
\* all the file holds.
C11_Witness ==
    /\ BothClosed /\ ~wr.overlap
    /\ Len(Data(wr.order[1])) > Len(Data(wr.order[2])) + BufferSize
    /\ commands_json.text = Data(wr.order[2])
    /\ commands_json.text # Data(wr.order[1])

====
